---- MODULE Spec2Model ----
(***************************************************************************)
(* Model of habr_stats: the harvest scheduler (scrape_articles), the       *)
(* pagination resolver, the metric normalizers and the year aggregation    *)
(* of src/top_habr.py and src/analysis.py.                                 *)
(*                                                                         *)
(* Python strings are sequences of one-character strings, so that          *)
(* strip / lower / replace / int / float are computed character by         *)
(* character.  NBSP stands for the character U+00A0.                       *)
(***************************************************************************)
EXTENDS Integers, Sequences, FiniteSets, TLC

\* ------------------------------------------------------------------ bounds
MaxLastPage == 25
MaxFailures == 1
MaxArticles == 2
MaxLinks == 2
MaxTextLen == 2
MaxIntDigits == 2
MaxFracDigits == 2
MaxRecords == 2
MaxTailLen == 1
MaxBucket == 6
MaxViews == 2
MaxMedianBucket == 4
MaxBlocks == 3

\* ------------------------------------------------------- program constants
chunk_size == 10

\* ------------------------------------------------------------------ values
None == [kind |-> "None"]
Pending == [kind |-> "pending"]
NBSP == "nbsp"

VARIABLES
    mode,             \* which part of the program this behaviour exercises
    site,             \* the origin server: what each listing page contains
    pc,               \* position of scrape_articles
    first_page_html,  \* scrape_articles: first_page_html
    last_page,        \* scrape_articles: last_page
    rows,             \* scrape_articles: rows
    i,                \* scrape_articles: loop variable i
    chunk,            \* scrape_articles: chunk (page numbers of the tasks)
    pages_html,       \* result slots of asyncio.gather, by task position
    k,                \* position of the merge loop in pages_html
    returned,         \* value returned by scrape_articles, once pc = "Done"
    requests,         \* log: page numbers in the order they were requested
    chunks_log,       \* log: the chunks in the order they were launched
    coolings,         \* log: number of asyncio.sleep(30) taken
    resolver_calls,   \* log: number of calls of parse_pagination_last_page
    ok_pages,         \* log: pages whose fetch returned html
    failed_pages,     \* log: pages whose fetch returned None
    overtaken,        \* log: a fetch settled before an earlier task's fetch
    arg,              \* argument of the pure function under test
    fn,               \* name of the pure function applied, "none" before
    ret               \* its result

vars == <<mode, site, pc, first_page_html, last_page, rows, i, chunk,
          pages_html, k, returned, requests, chunks_log, coolings,
          resolver_calls, ok_pages, failed_pages,
          overtaken, arg, fn, ret>>

pureVars == <<arg, fn, ret>>

harvestVars == <<site, pc, first_page_html, last_page, rows, i, chunk,
                 pages_html, k, returned, requests, chunks_log, coolings,
                 resolver_calls, ok_pages, failed_pages, overtaken>>

\* ---------------------------------------------------------- string helpers
Digits == <<"0", "1", "2", "3", "4", "5", "6", "7", "8", "9">>
DigitSet == {Digits[n] : n \in 1..10}
IsDigit(c) == c \in DigitSet
DigitVal(c) == (CHOOSE n \in 1..10 : Digits[n] = c) - 1

\* str.isspace for the characters of the model
IsSpace(c) == c \in {" ", "\t", "\n", NBSP}

RECURSIVE LStrip(_)
LStrip(s) ==
    IF s # <<>> /\ IsSpace(Head(s)) THEN LStrip(Tail(s)) ELSE s

RECURSIVE RStrip(_)
RStrip(s) ==
    IF s # <<>> /\ IsSpace(s[Len(s)])
    THEN RStrip(SubSeq(s, 1, Len(s) - 1))
    ELSE s

\* str.strip()
Strip(s) == RStrip(LStrip(s))

\* the decimal numeral of a natural number below 100, as str(n) writes it
Numeral(n) ==
    IF n < 10 THEN <<Digits[n + 1]>>
    ELSE <<Digits[(n \div 10) + 1], Digits[(n % 10) + 1]>>

\* ------------------------------------------------------------ Python int()
\* value of a run of digits in which single underscores may separate digits;
\* acc is the value so far, prevDigit tells whether a digit came just before
RECURSIVE IntBody(_, _, _)
IntBody(s, acc, prevDigit) ==
    IF s = <<>> THEN [ok |-> prevDigit, val |-> acc]
    ELSE IF IsDigit(Head(s))
         THEN IntBody(Tail(s), acc * 10 + DigitVal(Head(s)), TRUE)
    ELSE IF Head(s) = "_" /\ prevDigit
         THEN IntBody(Tail(s), acc, FALSE)
    ELSE [ok |-> FALSE, val |-> 0]

\* int(s) for a str s: ok = FALSE stands for ValueError
PyInt(s) ==
    LET t == Strip(s)
        neg == t # <<>> /\ Head(t) = "-"
        u == IF t # <<>> /\ Head(t) \in {"+", "-"} THEN Tail(t) ELSE t
        b == IntBody(u, 0, FALSE)
    IN  IF b.ok THEN [ok |-> TRUE, val |-> IF neg THEN 0 - b.val ELSE b.val]
        ELSE [ok |-> FALSE, val |-> 0]

\* ------------------------------------------------------ pagination resolver
\* A listing page, as far as the program looks at it:
\*   page       its page number
\*   articles   number of <article class="tm-articles-list__item"> containers
\*   pagination [block |-> the div.tm-pagination is present,
\*               links |-> the texts of its a.tm-pagination__page links]
parse_pagination_last_page(html) ==
    LET pagination_block == html.pagination.block
        page_links == html.pagination.links
    IN  IF ~pagination_block THEN 1
        ELSE IF page_links = <<>> THEN 1
        ELSE LET n == PyInt(Strip(page_links[Len(page_links)]))
             IN  IF n.ok THEN n.val ELSE 1

\* -------------------------------------------------------------- page parser
\* the record parse_article_block returns for one container
parse_article_block(html, n) == [page |-> html.page, idx |-> n]

parse_articles_list(html) ==
    [n \in 1..html.articles |-> parse_article_block(html, n)]

\* --------------------------------------------------------------- the origin
\* the pages a run may resolve last_page to: one page, one chunk (short and
\* full), two chunks, and MaxLastPage
LastPages == {1, 2, chunk_size + 1, chunk_size + 2, MaxLastPage}

Paginations ==
    {[block |-> FALSE, links |-> <<>>], [block |-> TRUE, links |-> <<>>]}
    \cup {[block |-> TRUE, links |-> <<Numeral(1), Numeral(n)>>] :
              n \in LastPages}

Sites == [first : {0, MaxArticles}, rest : {0, MaxArticles},
          pagination : Paginations]

\* number of article containers the server puts on page p
Articles(p) == IF p = 1 THEN site.first ELSE site.rest

\* the document the server answers for page p
Html(p) ==
    [kind |-> "html",
     page |-> p,
     articles |-> Articles(p),
     pagination |-> site.pagination]

\* ------------------------------------------------------------ scrape_articles
\* range(2, last_page + 1)
page_numbers == [n \in 1..(last_page - 1) |-> n + 1]

\* a slice one page longer than the chunk size
ChunkAtOversized(off) ==
    LET hi == IF off + chunk_size + 1 < Len(page_numbers)
              THEN off + chunk_size + 1 ELSE Len(page_numbers)
    IN  SubSeq(page_numbers, off + 1, hi)

\* page_numbers[i:i + chunk_size]
ChunkAt(off) ==
    LET hi == IF off + chunk_size < Len(page_numbers)
              THEN off + chunk_size ELSE Len(page_numbers)
    IN  SubSeq(page_numbers, off + 1, hi)

\* a fetch without timeout, which past the first chunk never settles
FetchOutcomesNoTimeout(p) == IF p > chunk_size + 1 THEN {} ELSE {Html(p)}

\* fetch_html: the html of the page, or None on any error or timeout
FetchOutcomes(p) ==
    {Html(p)} \cup
    (IF Cardinality(failed_pages) < MaxFailures THEN {None} ELSE {})

\* a first fetch without content that does not end the run
FirstFetchNoEarlyReturn(html) ==
    IF html = None THEN "StartChunk" ELSE "ResolvingPagination"

\* line 303: where the run goes once the first fetch has settled
FirstFetchNextPc(html) ==
    IF html = None THEN "Done" ELSE "ResolvingPagination"

\* a gather in which one failed fetch takes the results of its siblings away
ChunkResultsFailFast ==
    IF \E n \in 1..Len(pages_html) : pages_html[n] = None
    THEN [n \in 1..Len(pages_html) |-> None]
    ELSE pages_html

\* line 323: what gather hands back, one result per task, in task order
ChunkResults == pages_html

\* a merge loop that walks the results backwards
NextHtmlReversed == ChunkResults[Len(pages_html) + 1 - k]

\* line 324: the html the merge loop looks at in its k-th iteration
NextHtml == ChunkResults[k]

\* an assignment in the place of extend
ExtendReplacing(lst, more) == more

\* line 326: list.extend
extend(lst, more) == lst \o more

\* a loop that runs its body once
RangeHasNextNever == FALSE

\* line 314: range(0, len(page_numbers), chunk_size) has a value after i
RangeHasNext == i + chunk_size < Len(page_numbers)

\* the pause condition off by one
NotLastChunkOffByOne == i + chunk_size <= Len(page_numbers)

\* line 331: the condition of the pause
NotLastChunk == i + chunk_size < Len(page_numbers)

InitHarvest ==
    /\ mode = "harvest"
    /\ site \in Sites
    /\ pc = "NotStarted"
    /\ first_page_html = None
    /\ last_page = 0
    /\ rows = <<>>
    /\ i = 0
    /\ chunk = <<>>
    /\ pages_html = <<>>
    /\ k = 0
    /\ returned = <<>>
    /\ requests = <<>>
    /\ chunks_log = <<>>
    /\ coolings = 0
    /\ resolver_calls = 0
    /\ ok_pages = {}
    /\ failed_pages = {}
    /\ overtaken = FALSE
    /\ arg = None /\ fn = "none" /\ ret = None

\* line 302: the first page is requested
Start ==
    /\ mode = "harvest" /\ pc = "NotStarted"
    /\ pc' = "FetchingFirstPage"
    /\ requests' = Append(requests, 1)
    /\ UNCHANGED <<mode, site, first_page_html, last_page, rows, i, chunk,
                   pages_html, k, returned, chunks_log, coolings,
                   resolver_calls, ok_pages, failed_pages, overtaken,
                   pureVars>>

\* lines 302-304: the first fetch settles; no content ends the run with []
FirstPageSettle ==
    /\ mode = "harvest" /\ pc = "FetchingFirstPage"
    /\ \E html \in FetchOutcomes(1) :
          /\ first_page_html' = html
          /\ pc' = FirstFetchNextPc(html)
          /\ IF html = None
             THEN /\ failed_pages' = failed_pages \cup {1}
                  /\ ok_pages' = ok_pages
             ELSE /\ ok_pages' = ok_pages \cup {1}
                  /\ failed_pages' = failed_pages
    /\ returned' = <<>>
    /\ UNCHANGED <<mode, site, last_page, rows, i, chunk, pages_html, k,
                   requests, chunks_log, coolings, resolver_calls,
                   overtaken, pureVars>>

\* lines 306-310: last_page and the first page's records
ResolvePagination ==
    /\ mode = "harvest" /\ pc = "ResolvingPagination"
    /\ last_page' = parse_pagination_last_page(first_page_html)
    /\ resolver_calls' = resolver_calls + 1
    /\ rows' = parse_articles_list(first_page_html)
    /\ IF last_page' > 1
       THEN /\ pc' = "StartChunk"
            /\ returned' = returned
       ELSE /\ pc' = "Done"
            /\ returned' = rows'
    /\ UNCHANGED <<mode, site, first_page_html, i, chunk, pages_html, k,
                   requests, chunks_log, coolings, ok_pages, failed_pages,
                   overtaken, pureVars>>

\* lines 314-323: one fetch per page of the chunk, all handed to gather
LaunchChunk ==
    /\ mode = "harvest" /\ pc = "StartChunk"
    /\ chunk' = ChunkAt(i)
    /\ pages_html' = [n \in 1..Len(chunk') |-> Pending]
    /\ requests' = requests \o chunk'
    /\ chunks_log' = Append(chunks_log, chunk')
    /\ pc' = "FetchingChunk"
    /\ UNCHANGED <<mode, site, first_page_html, last_page, rows, i, k,
                   returned, coolings, resolver_calls, ok_pages,
                   failed_pages, overtaken, pureVars>>

\* one fetch of the chunk settles, in any order; gather keeps its slot
FetchSettle ==
    /\ mode = "harvest" /\ pc = "FetchingChunk"
    /\ \E n \in 1..Len(pages_html) :
          /\ pages_html[n] = Pending
          /\ \E html \in FetchOutcomes(chunk[n]) :
                /\ pages_html' = [pages_html EXCEPT ![n] = html]
                /\ IF html = None
                   THEN /\ failed_pages' = failed_pages \cup {chunk[n]}
                        /\ ok_pages' = ok_pages
                   ELSE /\ ok_pages' = ok_pages \cup {chunk[n]}
                        /\ failed_pages' = failed_pages
          /\ overtaken' =
                (overtaken \/ \E m \in 1..(n - 1) : pages_html[m] = Pending)
    /\ UNCHANGED <<mode, site, pc, first_page_html, last_page, rows, i,
                   chunk, k, returned, requests, chunks_log, coolings,
                   resolver_calls, pureVars>>

\* a join that returns with the first fetch that settles
GatherDoneOnFirst == \E n \in 1..Len(pages_html) : pages_html[n] # Pending

\* line 323: await asyncio.gather(*tasks) is over when every task is
GatherDone == \A n \in 1..Len(pages_html) : pages_html[n] # Pending

\* line 323: gather returns once every fetch of the chunk has settled
GatherJoin ==
    /\ mode = "harvest" /\ pc = "FetchingChunk"
    /\ GatherDone
    /\ pc' = "Merging"
    /\ k' = 1
    /\ UNCHANGED <<mode, site, first_page_html, last_page, rows, i, chunk,
                   pages_html, returned, requests, chunks_log, coolings,
                   resolver_calls, ok_pages, failed_pages, overtaken,
                   pureVars>>

\* lines 324-328: one iteration of the merge loop, up to its sleep(0.01)
MergePage ==
    /\ mode = "harvest" /\ pc = "Merging" /\ k <= Len(pages_html)
    /\ rows' = IF NextHtml # None
               THEN extend(rows, parse_articles_list(NextHtml))
               ELSE rows
    /\ k' = k + 1
    /\ UNCHANGED <<mode, site, pc, first_page_html, last_page, i, chunk,
                   pages_html, returned, requests, chunks_log, coolings,
                   resolver_calls, ok_pages, failed_pages, overtaken,
                   pureVars>>

\* lines 331-335 and 314: after the merge loop, the pause when this is not
\* the last chunk; without a pause, the next iteration or the return
EndChunk ==
    /\ mode = "harvest" /\ pc = "Merging" /\ k > Len(pages_html)
    /\ IF NotLastChunk
       THEN /\ pc' = "Cooling"
            /\ coolings' = coolings + 1
            /\ UNCHANGED <<i, returned>>
       ELSE /\ coolings' = coolings
            /\ IF RangeHasNext
               THEN /\ pc' = "StartChunk"
                    /\ i' = i + chunk_size
                    /\ returned' = returned
               ELSE /\ pc' = "Done"
                    /\ i' = i
                    /\ returned' = rows
    /\ UNCHANGED <<mode, site, first_page_html, last_page, rows, chunk,
                   pages_html, k, requests, chunks_log, resolver_calls,
                   ok_pages, failed_pages, overtaken, pureVars>>

\* line 333 elapses; line 314 takes the next i, line 335 returns without one
CoolingElapse ==
    /\ mode = "harvest" /\ pc = "Cooling"
    /\ IF RangeHasNext
       THEN /\ pc' = "StartChunk"
            /\ i' = i + chunk_size
            /\ returned' = returned
       ELSE /\ pc' = "Done"
            /\ i' = i
            /\ returned' = rows
    /\ UNCHANGED <<mode, site, first_page_html, last_page, rows, chunk,
                   pages_html, k, requests, chunks_log, coolings,
                   resolver_calls, ok_pages, failed_pages, overtaken,
                   pureVars>>

Next ==
    \/ Start
    \/ FirstPageSettle
    \/ ResolvePagination
    \/ LaunchChunk
    \/ FetchSettle
    \/ GatherJoin
    \/ MergePage
    \/ EndChunk
    \/ CoolingElapse

Spec == InitHarvest /\ [][Next]_vars

\* The run under the scheduling the event loop gives it: the coroutine is
\* resumed whenever it can go on, every fetch issued settles (fetch_html
\* passes the session's total timeout to session.get, line 51, and returns
\* on every exception, line 54), and every asyncio.sleep elapses.
Fairness ==
    /\ WF_vars(Start)
    /\ WF_vars(FirstPageSettle)
    /\ WF_vars(ResolvePagination)
    /\ WF_vars(LaunchChunk)
    /\ WF_vars(FetchSettle)
    /\ WF_vars(GatherJoin)
    /\ WF_vars(MergePage)
    /\ WF_vars(EndChunk)
    /\ WF_vars(CoolingElapse)

\* the records play no part in the control flow: every page is full
InitLive ==
    /\ InitHarvest
    /\ site.first = MaxArticles
    /\ site.rest = MaxArticles

SpecLive == InitLive /\ [][Next]_vars /\ Fairness

\* ============================================ pagination resolver on its own
\* all strings of length at most n over the characters cs
RECURSIVE Strings(_, _)
Strings(cs, n) ==
    IF n = 0 THEN {<<>>}
    ELSE LET shorter == Strings(cs, n - 1)
         IN  shorter \cup {Append(t, c) : t \in shorter, c \in cs}

\* all sequences of length at most n over the set S
RECURSIVE SeqsUpTo(_, _)
SeqsUpTo(S, n) ==
    IF n = 0 THEN {<<>>}
    ELSE LET shorter == SeqsUpTo(S, n - 1)
         IN  shorter \cup {Append(t, x) : t \in shorter, x \in S}

\* texts a page link may carry
LinkChars == {"0", "1", "2", "-", " ", "x"}
LinkTexts == Strings(LinkChars, MaxTextLen)

\* first pages: without the pagination block, or with it and its links
FirstPages ==
    {[kind |-> "html", page |-> 1, articles |-> 0,
      pagination |-> [block |-> FALSE, links |-> <<>>]]}
    \cup {[kind |-> "html", page |-> 1, articles |-> 0,
           pagination |-> [block |-> TRUE, links |-> ls]] :
              ls \in SeqsUpTo(LinkTexts, MaxLinks)}

\* the scheduler at rest, for the behaviours that exercise a function alone
HarvestIdle ==
    /\ site = [first |-> 0, rest |-> 0,
               pagination |-> [block |-> FALSE, links |-> <<>>]]
    /\ pc = "NotStarted"
    /\ first_page_html = None
    /\ last_page = 0
    /\ rows = <<>>
    /\ i = 0
    /\ chunk = <<>>
    /\ pages_html = <<>>
    /\ k = 0
    /\ returned = <<>>
    /\ requests = <<>>
    /\ chunks_log = <<>>
    /\ coolings = 0
    /\ resolver_calls = 0
    /\ ok_pages = {}
    /\ failed_pages = {}
    /\ overtaken = FALSE

InitPagination ==
    /\ mode = "pagination"
    /\ HarvestIdle
    /\ arg \in FirstPages
    /\ fn = "none"
    /\ ret = 0

\* one call parse_pagination_last_page(arg)
CallPagination ==
    /\ mode = "pagination" /\ fn = "none"
    /\ fn' = "parse_pagination_last_page"
    /\ ret' = parse_pagination_last_page(arg)
    /\ UNCHANGED <<mode, arg>>
    /\ UNCHANGED harvestVars

NextPagination == CallPagination

SpecPagination == InitPagination /\ [][NextPagination]_vars

\* ======================================================= metric normalizers
UpperLetters ==
    <<"A", "B", "C", "D", "E", "F", "G", "H", "I", "J", "K", "L", "M",
      "N", "O", "P", "Q", "R", "S", "T", "U", "V", "W", "X", "Y", "Z">>
LowerLetters ==
    <<"a", "b", "c", "d", "e", "f", "g", "h", "i", "j", "k", "l", "m",
      "n", "o", "p", "q", "r", "s", "t", "u", "v", "w", "x", "y", "z">>

LowerChar(c) ==
    IF \E n \in 1..26 : UpperLetters[n] = c
    THEN LowerLetters[CHOOSE n \in 1..26 : UpperLetters[n] = c]
    ELSE c

\* str.lower()
Lower(s) == [n \in 1..Len(s) |-> LowerChar(s[n])]

\* s.replace(c, '')
Remove(s, c) == SelectSeq(s, LAMBDA x : x # c)

\* s.replace(a, b) for single characters
Replace(s, a, b) == [n \in 1..Len(s) |-> IF s[n] = a THEN b ELSE s[n]]

\* c in s
Contains(s, c) == \E n \in 1..Len(s) : s[n] = c

\* position of the first c in s, 0 without one
IndexOf(s, c) ==
    IF Contains(s, c)
    THEN CHOOSE n \in 1..Len(s) :
             s[n] = c /\ \A m \in 1..(n - 1) : s[m] # c
    ELSE 0

RECURSIVE Pow10(_)
Pow10(n) == IF n = 0 THEN 1 ELSE 10 * Pow10(n - 1)

\* a run of digits with single underscores between digits: its value and
\* its number of digits
RECURSIVE DigitRun(_, _, _, _)
DigitRun(s, acc, n, prevDigit) ==
    IF s = <<>> THEN [ok |-> prevDigit, val |-> acc, n |-> n]
    ELSE IF IsDigit(Head(s))
         THEN DigitRun(Tail(s), acc * 10 + DigitVal(Head(s)), n + 1, TRUE)
    ELSE IF Head(s) = "_" /\ prevDigit
         THEN DigitRun(Tail(s), acc, n, FALSE)
    ELSE [ok |-> FALSE, val |-> 0, n |-> 0]

\* the fraction frac / 10^scale without trailing zeros
RECURSIVE Reduced(_, _)
Reduced(frac, scale) ==
    IF scale > 0 /\ frac % 10 = 0 THEN Reduced(frac \div 10, scale - 1)
    ELSE <<frac, scale>>

\* float(s) for a str s without exponent part: kind "error" stands for
\* ValueError; a finite value is int + frac / 10^scale, negated when neg
PyFloat(s) ==
    LET t == Strip(s)
        neg == t # <<>> /\ Head(t) = "-"
        u == IF t # <<>> /\ Head(t) \in {"+", "-"} THEN Tail(t) ELSE t
        dot == IndexOf(u, ".")
        ip == IF dot = 0 THEN u ELSE SubSeq(u, 1, dot - 1)
        fp == IF dot = 0 THEN <<>> ELSE SubSeq(u, dot + 1, Len(u))
        I == DigitRun(ip, 0, 0, FALSE)
        F == DigitRun(fp, 0, 0, FALSE)
        special(kd) ==
            [kind |-> kd, neg |-> neg, int |-> 0, frac |-> 0, scale |-> 0]
    IN  IF Lower(u) \in {<<"i", "n", "f">>,
                         <<"i", "n", "f", "i", "n", "i", "t", "y">>}
        THEN special("inf")
        ELSE IF Lower(u) = <<"n", "a", "n">> THEN special("nan")
        ELSE IF /\ ip = <<>> \/ I.ok
                /\ fp = <<>> \/ F.ok
                /\ ~(ip = <<>> /\ fp = <<>>)
             THEN [kind |-> "finite", neg |-> neg,
                   int |-> IF ip = <<>> THEN 0 ELSE I.val,
                   frac |-> IF fp = <<>> THEN 0
                            ELSE Reduced(F.val, F.n)[1],
                   scale |-> IF fp = <<>> THEN 0
                             ELSE Reduced(F.val, F.n)[2]]
        ELSE special("error")

\* The decimal values <<int, frac, scale>> among those written with the
\* digits 0, 1, 2, 5, up to three integer and two fractional digits or up to
\* two integer and three fractional digits, whose IEEE-754 double, multiplied
\* by 1000 (by 1000000) in double arithmetic, lies just below the exact
\* product, so that int() truncates to one less: 2.01 * 1000 is
\* 2009.9999999999998.
RoundsBelowTimes1000 ==
    {<<1, 1, 3>>, <<1, 5, 3>>, <<1, 11, 3>>, <<1, 15, 3>>, <<1, 21, 3>>,
     <<2, 1, 2>>, <<2, 2, 3>>, <<2, 22, 3>>, <<512, 5, 2>>, <<512, 55, 2>>,
     <<515, 5, 2>>, <<515, 55, 2>>, <<520, 5, 2>>, <<520, 55, 2>>,
     <<521, 5, 2>>, <<521, 55, 2>>, <<522, 5, 2>>, <<522, 55, 2>>}
RoundsBelowTimes1000000 ==
    {<<1, 1, 3>>, <<1, 5, 3>>, <<1, 11, 3>>, <<1, 15, 3>>, <<1, 21, 3>>,
     <<1, 25, 3>>, <<2, 1, 2>>, <<2, 2, 3>>, <<2, 5, 2>>, <<2, 22, 3>>,
     <<512, 5, 2>>, <<512, 55, 2>>, <<515, 5, 2>>, <<515, 55, 2>>,
     <<520, 5, 2>>, <<520, 55, 2>>, <<521, 5, 2>>, <<521, 55, 2>>,
     <<522, 5, 2>>, <<522, 55, 2>>, <<525, 5, 2>>, <<525, 55, 2>>}

\* the outcome of a call: a value, or an exception that leaves the function
Returns(n) == [raised |-> "none", val |-> n]
Raises(e) == [raised |-> e, val |-> 0]

\* int(float(text) * mul) for mul in {1, 1000, 1000000}: truncation toward
\* zero of the double product; int() of an infinity is OverflowError, of a
\* NaN ValueError
IntOfFloatTimes(text, mul) ==
    LET f == PyFloat(text)
        below == CASE mul = 1000 -> RoundsBelowTimes1000
                   [] mul = 1000000 -> RoundsBelowTimes1000000
                   [] OTHER -> {}
        mag == f.int * mul + (f.frac * mul) \div Pow10(f.scale)
               - (IF <<f.int, f.frac, f.scale>> \in below THEN 1 ELSE 0)
    IN  CASE f.kind = "error" -> Raises("ValueError")
          [] f.kind = "nan" -> Raises("ValueError")
          [] f.kind = "inf" -> Raises("OverflowError")
          [] OTHER -> Returns(IF f.neg THEN 0 - mag ELSE mag)

\* int(text)
IntOf(text) ==
    IF PyInt(text).ok THEN Returns(PyInt(text).val) ELSE Raises("ValueError")

\* try: result  except caught: return 0
TryExcept(result, caught) ==
    IF result.raised \in caught THEN Returns(0) ELSE result

\* top_habr.py, convert_views_to_int
convert_views_to_int(views_str) ==
    IF views_str.type # "str" THEN Returns(0)
    ELSE LET s == Replace(Remove(Strip(Lower(views_str.chars)), " "),
                          ",", ".")
         IN  IF Contains(s, "k")
             THEN TryExcept(IntOfFloatTimes(Remove(s, "k"), 1000),
                            {"ValueError"})
             ELSE IF Contains(s, "m")
             THEN TryExcept(IntOfFloatTimes(Remove(s, "m"), 1000000),
                            {"ValueError"})
             ELSE TryExcept(IntOf(s), {"ValueError", "TypeError"})

\* analysis.py, lines 26-33 and 39-46: the shared try block
AnalysisTry(s) ==
    TryExcept(IF Contains(s, "k")
              THEN IntOfFloatTimes(Remove(s, "k"), 1000)
              ELSE IF Contains(s, "m")
              THEN IntOfFloatTimes(Remove(s, "m"), 1000000)
              ELSE IntOfFloatTimes(s, 1),
              {"ValueError", "TypeError"})

\* analysis.py, convert_views_to_int
analysis_convert_views_to_int(views_str) ==
    IF views_str.type # "str" THEN Returns(0)
    ELSE AnalysisTry(Replace(Remove(Strip(Lower(views_str.chars)), " "),
                             ",", "."))

\* analysis.py, convert_metric_to_int
convert_metric_to_int(metric_str) ==
    IF metric_str.type # "str" THEN Returns(0)
    ELSE AnalysisTry(Replace(Lower(Remove(Remove(Strip(metric_str.chars),
                                                 " "), "+")),
                             ",", "."))

\* ------------------------------------------------- inputs of the normalizers
MetricDigits == {"0", "1", "2", "5"}
IntParts == Strings(MetricDigits, MaxIntDigits) \ {<<>>}
FracParts == Strings(MetricDigits, MaxFracDigits)

\* a blank after the first digit, as in "1 500"
Spaced(ip, sp) ==
    IF sp /\ Len(ip) >= 2 THEN <<ip[1], " ">> \o Tail(ip) ELSE ip

\* a str value, with the parts it was written from when it is a number
Metric(chars, wf, ip, fp, suffix) ==
    [type |-> "str", chars |-> chars,
     shape |-> [wf |-> wf, int |-> ip, frac |-> fp, suffix |-> suffix]]

\* numbers as the site prints them: blanks around, a blank as thousands
\* separator, '.' or ',' before the fraction, k or m in either case, '+'
WellFormedMetrics(ips, fps) ==
    {Metric(pad[1] \o Spaced(ip, sp)
                   \o (IF fp = <<>> THEN <<>> ELSE <<dp>> \o fp)
                   \o sfx \o plus \o pad[2],
            TRUE, ip, fp, Lower(sfx)) :
        pad \in {<<<<>>, <<>>>>, <<<<" ">>, <<NBSP>>>>},
        ip \in ips, sp \in BOOLEAN,
        dp \in {".", ","}, fp \in fps,
        sfx \in {<<>>, <<"k">>, <<"K">>, <<"m">>, <<"M">>},
        plus \in {<<>>, <<"+">>}}

\* the examples of the documentation: 25.6k, 1.2M, 500
ExampleMetrics ==
    {Metric(<<"2", "5", ".", "6", "k">>, TRUE, <<"2", "5">>, <<"6">>,
            <<"k">>),
     Metric(<<"1", ".", "2", "M">>, TRUE, <<"1">>, <<"2">>, <<"m">>),
     Metric(<<"5", "0", "0">>, TRUE, <<"5", "0", "0">>, <<>>, <<>>)}

Other(chars) == Metric(chars, FALSE, <<>>, <<>>, <<>>)

\* texts that are no number, and values that are no str
DegenerateMetrics ==
    {Other(<<>>), Other(<<"N", "/", "A">>), Other(<<"a", "b", "c">>),
     Other(<<"k">>), Other(<<"m">>), Other(<<"+">>), Other(<<".">>),
     Other(<<"1", ".", "2", ".", "5">>), Other(<<"n", "a", "n">>),
     Other(<<"n", "a", "n", "k">>), Other(<<"i", "n", "f">>),
     Other(<<"i", "n", "f", "k">>),
     Other(<<"I", "n", "f", "i", "n", "i", "t", "y">>),
     [type |-> "NoneType", chars |-> <<>>, shape |-> Other(<<>>).shape],
     [type |-> "int", chars |-> <<>>, shape |-> Other(<<>>).shape]}

MetricInputs(ips, fps) ==
    WellFormedMetrics(ips, fps) \cup ExampleMetrics \cup DegenerateMetrics

InitNormalize ==
    /\ mode = "normalize"
    /\ HarvestIdle
    /\ arg \in MetricInputs(IntParts, FracParts)
    /\ fn = "none"
    /\ ret = Returns(0)

\* one call of convert_views_to_int of top_habr.py
CallTopViews ==
    /\ mode = "normalize" /\ fn = "none"
    /\ fn' = "top_habr.convert_views_to_int"
    /\ ret' = convert_views_to_int(arg)
    /\ UNCHANGED <<mode, arg>>
    /\ UNCHANGED harvestVars

\* one call of convert_views_to_int of analysis.py
CallAnalysisViews ==
    /\ mode = "normalize" /\ fn = "none"
    /\ fn' = "analysis.convert_views_to_int"
    /\ ret' = analysis_convert_views_to_int(arg)
    /\ UNCHANGED <<mode, arg>>
    /\ UNCHANGED harvestVars

\* one call of convert_metric_to_int of analysis.py
CallAnalysisMetric ==
    /\ mode = "normalize" /\ fn = "none"
    /\ fn' = "analysis.convert_metric_to_int"
    /\ ret' = convert_metric_to_int(arg)
    /\ UNCHANGED <<mode, arg>>
    /\ UNCHANGED harvestVars

NextNormalize ==
    \/ CallTopViews
    \/ CallAnalysisViews
    \/ CallAnalysisMetric

SpecNormalize == InitNormalize /\ [][NextNormalize]_vars

\* ============================================================ year bucketing
\* the characters of the model in ascending code point order
CharOrder ==
    <<"\t", "\n", " ", "+", "-", ".", "/",
      "0", "1", "2", "3", "4", "5", "6", "7", "8", "9", ":",
      "A", "B", "C", "D", "E", "F", "G", "H", "I", "J", "K", "L", "M",
      "N", "O", "P", "Q", "R", "S", "T", "U", "V", "W", "X", "Y", "Z", "_",
      "a", "b", "c", "d", "e", "f", "g", "h", "i", "j", "k", "l", "m",
      "n", "o", "p", "q", "r", "s", "t", "u", "v", "w", "x", "y", "z", NBSP>>
Rank(c) == CHOOSE n \in 1..Len(CharOrder) : CharOrder[n] = c

\* a <= b for two str, as Python compares them
RECURSIVE StrLE(_, _)
StrLE(a, b) ==
    IF a = <<>> THEN TRUE
    ELSE IF b = <<>> THEN FALSE
    ELSE IF Head(a) = Head(b) THEN StrLE(Tail(a), Tail(b))
    ELSE Rank(Head(a)) < Rank(Head(b))

\* str(n) for a natural number n
RECURSIVE Str(_)
Str(n) ==
    IF n < 10 THEN <<Digits[n + 1]>>
    ELSE Append(Str(n \div 10), Digits[(n % 10) + 1])

\* the width of the slice [:4]
YEAR_WIDTH == 4
\* s[:4]
YearSlice(s) ==
    SubSeq(s, 1, IF Len(s) < YEAR_WIDTH THEN Len(s) ELSE YEAR_WIDTH)

\* top_habr.py line 386
YEAR_FROM == 2011
YEAR_TO == 2025
\* analysis.py line 177
start_year == 2020
end_year == 2025

\* a range check that forgot its upper bound
InRangeLowerOnly(year) == YEAR_FROM <= year

\* top_habr.py line 386: 2011 <= year <= 2025
InRange(year) == YEAR_FROM <= year /\ year <= YEAR_TO

\* d[key] = d.get(key, []) + [x] on a dict modelled as a function
Appended(d, key, x) ==
    IF key \in DOMAIN d THEN [d EXCEPT ![key] = Append(@, x)]
    ELSE d @@ (key :> <<x>>)

\* the state of a grouping loop: the dict, the number of records seen, and
\* the exception that left the loop, if any
Grouping(dict, n, raised) == [dict |-> dict, n |-> n, raised |-> raised]

\* top_habr.py lines 383-392: the body of the loop for one article; a date
\* is [type |-> "absent"] when the record has no 'date' key
TopGroupStep(g, article) ==
    LET seen == Grouping(g.dict, g.n + 1, g.raised)
    IN  IF article.date.type # "str"
        THEN seen    \* KeyError or TypeError, caught at line 390
        ELSE LET year == PyInt(YearSlice(article.date.chars))
             IN  IF ~year.ok THEN seen    \* ValueError, caught at line 390
                 ELSE IF InRange(year.val)
                 THEN Grouping(Appended(g.dict, year.val, article),
                               g.n + 1, g.raised)
                 ELSE seen

\* analysis.py line 190: the condition of the comprehension
In2020To2025(a) ==
    /\ a.date.type # "absent"
    /\ a.date.type = "str" /\ a.date.chars # <<>>
    /\ StrLE(Str(start_year), YearSlice(a.date.chars))
    /\ StrLE(YearSlice(a.date.chars), Str(end_year))

\* analysis.py line 192
EmptyYears == [y \in {Str(n) : n \in start_year..end_year} |-> <<>>]

\* analysis.py lines 190-194 for one article: filtered, then appended under
\* the key date[:4]; a key the dict lacks is a KeyError
AnalysisGroupStep(g, article) ==
    IF ~In2020To2025(article) THEN Grouping(g.dict, g.n + 1, g.raised)
    ELSE IF YearSlice(article.date.chars) \in DOMAIN g.dict
    THEN Grouping(Appended(g.dict, YearSlice(article.date.chars), article),
                  g.n + 1, g.raised)
    ELSE Grouping(g.dict, g.n + 1, "KeyError")

\* ------------------------------------------------------ inputs of bucketing
DateChars == {"0", "1", "2", "5", "-"}
Tails == Strings({"-"}, MaxTailLen)

\* dates whose first characters are every text up to the slice width, plus
\* the sentinel and texts that int() strips or reads leniently
DateTexts ==
    {h \o t : h \in Strings(DateChars, YEAR_WIDTH), t \in Tails}
    \cup {<<"N", "/", "A">>, <<" ", "2", "0", "2", "0">>,
          <<"+", "2", "0", "2", "0">>, <<"2", "_", "2", "0">>,
          <<"2", "0", "2", ":">>, <<"2", "0", "2", "/">>}

Dates ==
    {[type |-> "str", chars |-> t] : t \in DateTexts}
    \cup {[type |-> "absent", chars |-> <<>>],
          [type |-> "NoneType", chars |-> <<>>]}

InitBucket ==
    /\ mode \in {"top_habr.main_async", "analysis.main"}
    /\ HarvestIdle
    /\ arg = None
    /\ fn = "none"
    /\ ret = Grouping(IF mode = "analysis.main" THEN EmptyYears ELSE <<>>,
                      0, "none")

\* top_habr.py: the grouping loop takes the next article of all_articles
TopGroupNext ==
    /\ mode = "top_habr.main_async"
    /\ ret.n < MaxRecords /\ ret.raised = "none"
    /\ \E d \in Dates :
          ret' = TopGroupStep(ret, [id |-> ret.n + 1, date |-> d])
    /\ fn' = "group"
    /\ UNCHANGED <<mode, arg>>
    /\ UNCHANGED harvestVars

\* analysis.py: the next article of the file goes through lines 190-194
AnalysisGroupNext ==
    /\ mode = "analysis.main"
    /\ ret.n < MaxRecords /\ ret.raised = "none"
    /\ \E d \in Dates :
          ret' = AnalysisGroupStep(ret, [id |-> ret.n + 1, date |-> d])
    /\ fn' = "group"
    /\ UNCHANGED <<mode, arg>>
    /\ UNCHANGED harvestVars

NextBucket ==
    \/ TopGroupNext
    \/ AnalysisGroupNext

SpecBucket == InitBucket /\ [][NextBucket]_vars

\* ================================================================ top five
\* top_habr.py line 405
TOP_N == 5

\* the key of line 404: x.get('views_int', 0)
ViewsKey(x) == x.views_int

\* a sort that puts a record in front of the records with an equal key
RECURSIVE InsertBeforeTies(_, _)
InsertBeforeTies(s, x) ==
    IF s = <<>> THEN <<x>>
    ELSE IF ViewsKey(Head(s)) > ViewsKey(x)
         THEN <<Head(s)>> \o InsertBeforeTies(Tail(s), x)
    ELSE <<x>> \o s

\* x put into the descending list s behind every record whose key is not
\* smaller: sorted(..., reverse=True) keeps records with equal keys in the
\* order of its input
RECURSIVE InsertDescending(_, _)
InsertDescending(s, x) ==
    IF s = <<>> THEN <<x>>
    ELSE IF ViewsKey(Head(s)) >= ViewsKey(x)
         THEN <<Head(s)>> \o InsertDescending(Tail(s), x)
    ELSE <<x>> \o s

\* line 404: sorted(articles, key=..., reverse=True)
RECURSIVE SortedDescending(_)
SortedDescending(articles) ==
    IF articles = <<>> THEN <<>>
    ELSE InsertDescending(
             SortedDescending(SubSeq(articles, 1, Len(articles) - 1)),
             articles[Len(articles)])

\* lines 404-405: sorted_articles[:5]
TopArticles(articles) ==
    LET sorted_articles == SortedDescending(articles)
    IN  SubSeq(sorted_articles, 1,
               IF Len(sorted_articles) < TOP_N THEN Len(sorted_articles)
               ELSE TOP_N)

\* the buckets of one year: records in discovery order with their views_int
YearBuckets ==
    {[n \in 1..Len(vs) |-> [id |-> n, views_int |-> vs[n]]] :
        vs \in SeqsUpTo(0..MaxViews, MaxBucket) \ {<<>>}}

InitRank ==
    /\ mode = "rank"
    /\ HarvestIdle
    /\ arg \in YearBuckets
    /\ fn = "none"
    /\ ret = <<>>

\* top_habr.py lines 404-405 for the bucket of one year
CallTopArticles ==
    /\ mode = "rank" /\ fn = "none"
    /\ fn' = "top_articles"
    /\ ret' = TopArticles(arg)
    /\ UNCHANGED <<mode, arg>>
    /\ UNCHANGED harvestVars

NextRank == CallTopArticles

SpecRank == InitRank /\ [][NextRank]_vars

\* ================================================================== median
\* a number as Python holds it: twice its value, and whether it is a float
Number(twice, isFloat) == [twice |-> twice, float |-> isFloat]

\* x put into the ascending list s
RECURSIVE InsertAscending(_, _)
InsertAscending(s, x) ==
    IF s = <<>> THEN <<x>>
    ELSE IF Head(s) <= x THEN <<Head(s)>> \o InsertAscending(Tail(s), x)
    ELSE <<x>> \o s

\* statistics.median: data = sorted(data)
RECURSIVE Sorted(_)
Sorted(data) ==
    IF data = <<>> THEN <<>>
    ELSE InsertAscending(Sorted(SubSeq(data, 1, Len(data) - 1)),
                         data[Len(data)])

\* statistics.median_high: the upper of the two central values
median_high(data) ==
    LET sorted == Sorted(data)
        n == Len(sorted)
    IN  IF n = 0 THEN Raises("StatisticsError")
        ELSE Returns(Number(2 * sorted[(n \div 2) + 1], FALSE))

\* statistics.median: data[n // 2] of the sorted data for an odd n, else
\* (data[i - 1] + data[i]) / 2 with i = n // 2, a float; indices from 0
median(data) ==
    LET sorted == Sorted(data)
        n == Len(sorted)
        j == n \div 2
    IN  IF n = 0 THEN Raises("StatisticsError")
        ELSE IF n % 2 = 1 THEN Returns(Number(2 * sorted[j + 1], FALSE))
        ELSE Returns(Number(sorted[j] + sorted[j + 1], TRUE))

\* the first exception among the outcomes rs, "none" without one
RECURSIVE FirstRaised(_)
FirstRaised(rs) ==
    IF rs = <<>> THEN "none"
    ELSE IF Head(rs).raised # "none" THEN Head(rs).raised
    ELSE FirstRaised(Tail(rs))

\* no entry is written for the year
NoEntry == [raised |-> "none", val |-> None]

\* the median of the values of the outcomes rs, or the first exception
\* raised on the way to them
MedianOrRaised(rs) ==
    IF FirstRaised(rs) # "none" THEN Raises(FirstRaised(rs))
    ELSE median([n \in 1..Len(rs) |-> rs[n].val])

\* top_habr.py lines 377-378 and 396-399 for the articles of one year:
\* views_int is set on every article, then the median of the views_int
top_median_views(articles) ==
    IF articles = <<>> THEN NoEntry
    ELSE MedianOrRaised([n \in 1..Len(articles) |->
                            convert_views_to_int(articles[n].views)])

\* analysis.py line 197 for the articles of one year
analysis_median_views(arts) ==
    IF arts = <<>> THEN Returns(Number(0, FALSE))
    ELSE MedianOrRaised([n \in 1..Len(arts) |->
                            analysis_convert_views_to_int(arts[n].views)])

\* the views of the articles of a bucket, as the page parser left them
ViewTexts ==
    {Other(<<"N", "/", "A">>),
     Metric(<<"0">>, TRUE, <<"0">>, <<>>, <<>>),
     Metric(<<"1">>, TRUE, <<"1">>, <<>>, <<>>),
     Metric(<<"2">>, TRUE, <<"2">>, <<>>, <<>>),
     Metric(<<"1", ".", "5">>, TRUE, <<"1">>, <<"5">>, <<>>),
     Metric(<<"1", "k">>, TRUE, <<"1">>, <<>>, <<"k">>),
     Other(<<"i", "n", "f", "k">>)}

MedianBuckets ==
    {[n \in 1..Len(vs) |-> [id |-> n, views |-> vs[n]]] :
        vs \in SeqsUpTo(ViewTexts, MaxMedianBucket)}

InitMedian ==
    /\ mode = "median"
    /\ HarvestIdle
    /\ arg \in MedianBuckets
    /\ fn = "none"
    /\ ret = NoEntry

\* top_habr.py: the median of one year's articles
CallTopMedian ==
    /\ mode = "median" /\ fn = "none"
    /\ fn' = "top_habr.median"
    /\ ret' = top_median_views(arg)
    /\ UNCHANGED <<mode, arg>>
    /\ UNCHANGED harvestVars

\* analysis.py: the median of one year's articles
CallAnalysisMedian ==
    /\ mode = "median" /\ fn = "none"
    /\ fn' = "analysis.median"
    /\ ret' = analysis_median_views(arg)
    /\ UNCHANGED <<mode, arg>>
    /\ UNCHANGED harvestVars

NextMedian ==
    \/ CallTopMedian
    \/ CallAnalysisMedian

SpecMedian == InitMedian /\ [][NextMedian]_vars

\* ============================================ page parser, container by container
\* An article container, as far as lines 121-127 and 179-182 look at it:
\*   raises  the exception parse_article_block leaves with on this container,
\*           "none" when it returns
\*   parent  the span.tm-icon-counter is present
\*   value   the span.tm-icon-counter__value is present inside it
\*   title   the title attribute of the value span, <<>> when absent or empty
\*   text    the text of the value span
NA == <<"N", "/", "A">>

\* format_number, lines 34-42
format_number(text) ==
    IF text = <<>> THEN NA ELSE Replace(Strip(text), NBSP, " ")

\* lines 121-127: views_value
views_value(block) ==
    IF block.parent /\ block.value
    THEN format_number(IF block.title # <<>> THEN block.title
                       ELSE block.text)
    ELSE NA

\* parse_article_block for the n-th container of the page: the record, or
\* the exception it leaves with
ParseArticleBlock(block, n) ==
    IF block.raises # "none" THEN Raises(block.raises)
    ELSE Returns([idx |-> n, views |-> views_value(block)])

\* the exceptions `except Exception` at line 181 catches
ExceptionSubclasses == {"AttributeError", "TypeError", "KeyError"}

\* a handler around the whole loop: the first failure ends the page
ParsedOrAbort(results, block, n) ==
    LET r == ParseArticleBlock(block, n)
    IN  IF results.raised # "none" THEN results
        ELSE IF r.raised \in ExceptionSubclasses THEN Raises(r.raised)
        ELSE Returns(Append(results.val, r.val))

\* lines 178-182: one iteration of the loop over article_blocks
Parsed(results, block, n) ==
    LET r == ParseArticleBlock(block, n)
    IN  IF results.raised # "none" THEN results
        ELSE IF r.raised \in ExceptionSubclasses THEN results
        ELSE IF r.raised # "none" THEN Raises(r.raised)
        ELSE Returns(Append(results.val, r.val))

\* lines 177-183: results after the first n containers
RECURSIVE ResultsUpTo(_, _)
ResultsUpTo(article_blocks, n) ==
    IF n = 0 THEN Returns(<<>>)
    ELSE Parsed(ResultsUpTo(article_blocks, n - 1), article_blocks[n], n)

\* parse_articles_list, lines 171-183, on the containers of a page
ParseArticlesList(article_blocks) ==
    ResultsUpTo(article_blocks, Len(article_blocks))

\* the views element of a container
ViewsElements ==
    {[parent |-> FALSE, value |-> FALSE, title |-> <<>>, text |-> <<>>],
     [parent |-> TRUE, value |-> FALSE, title |-> <<>>, text |-> <<>>],
     [parent |-> TRUE, value |-> TRUE, title |-> <<>>, text |-> <<>>],
     [parent |-> TRUE, value |-> TRUE, title |-> <<>>,
      text |-> <<" ", "1", "k", NBSP>>],
     [parent |-> TRUE, value |-> TRUE, title |-> <<"1", NBSP, "5", "0", "0">>,
      text |-> <<"2", "k">>]}

ArticleBlocks ==
    {[raises |-> e, parent |-> v.parent, value |-> v.value,
      title |-> v.title, text |-> v.text] :
        e \in {"none"} \cup ExceptionSubclasses, v \in ViewsElements}

InitPage ==
    /\ mode = "page"
    /\ HarvestIdle
    /\ arg \in SeqsUpTo(ArticleBlocks, MaxBlocks)
    /\ fn = "none"
    /\ ret = Returns(<<>>)

\* one call parse_articles_list(html) on a page with the containers arg
CallParseArticlesList ==
    /\ mode = "page" /\ fn = "none"
    /\ fn' = "parse_articles_list"
    /\ ret' = ParseArticlesList(arg)
    /\ UNCHANGED <<mode, arg>>
    /\ UNCHANGED harvestVars

NextPage == CallParseArticlesList

SpecPage == InitPage /\ [][NextPage]_vars

\* ===================================================== harvest: properties
\* the pages a..b in ascending order
RangeSeq(a, b) == [n \in 1..(b - a + 1) |-> a + n - 1]

\* pages 2..L cut into consecutive groups of 10, the last possibly shorter
ExpectedChunks(L) ==
    [c \in 1..((L + 8) \div 10) |->
        RangeSeq(10 * (c - 1) + 2, IF 10 * c + 1 < L THEN 10 * c + 1 ELSE L)]

\* the records of page p, top to bottom
PageRecords(p) == [n \in 1..Articles(p) |-> [page |-> p, idx |-> n]]

\* the records of the fetched pages among p..L, in ascending page order
RECURSIVE ExpectedRows(_, _)
ExpectedRows(p, L) ==
    IF p > L THEN <<>>
    ELSE (IF p \in ok_pages THEN PageRecords(p) ELSE <<>>)
         \o ExpectedRows(p + 1, L)

HarvestDone == mode = "harvest" /\ pc = "Done"

\* C1: once the fetch of the first page has returned no content the run is
\* over: it returns the empty list, parse_pagination_last_page was never
\* called, page 1 is the only page ever requested, no chunk was launched
\* and no cooling delay was taken.
C1_FirstPageFailureEndsRun ==
    (mode = "harvest" /\ 1 \in failed_pages) =>
        /\ pc = "Done"
        /\ returned = <<>>
        /\ resolver_calls = 0
        /\ requests = <<1>>
        /\ chunks_log = <<>>
        /\ coolings = 0

C1_Witness == HarvestDone /\ 1 \in failed_pages /\ last_page = 0

\* C2: no page is requested twice; a finished run whose first page was
\* fetched has requested exactly the pages 1..L in order, in the chunks
\* [2..11], [12..21], ... and has taken one 30-second delay per chunk except
\* the last (none for L = 1, two for L = 25); while a chunk is being fetched
\* or merged the delays taken are those of the chunks before it, and a
\* delay is only taken when a chunk follows.
C2_ChunkSchedule ==
    mode = "harvest" =>
        /\ Cardinality({requests[n] : n \in 1..Len(requests)}) = Len(requests)
        /\ pc \in {"FetchingChunk", "Merging"} =>
              coolings = Len(chunks_log) - 1
        /\ pc \in {"Cooling", "StartChunk"} =>
              /\ coolings = Len(chunks_log)
              /\ Len(chunks_log) < Len(ExpectedChunks(last_page))
        /\ (pc = "Done" /\ 1 \in ok_pages) =>
              /\ last_page >= 1
              /\ requests = RangeSeq(1, last_page)
              /\ chunks_log = ExpectedChunks(last_page)
              /\ coolings = IF last_page = 1 THEN 0 ELSE Len(chunks_log) - 1
              /\ last_page = 1 => requests = <<1>> /\ coolings = 0
              /\ last_page = 25 =>
                    /\ chunks_log = <<RangeSeq(2, 11), RangeSeq(12, 21),
                                      RangeSeq(22, 25)>>
                    /\ coolings = 2

C2_Witness ==
    /\ HarvestDone
    /\ last_page > 2 * chunk_size + 1
    /\ Len(chunks_log) = 3
    /\ Len(chunks_log[3]) < chunk_size
    /\ coolings = 2
    /\ failed_pages # {}

\* C3: the list a finished run returns is the concatenation, in ascending
\* page number, of the records of the pages whose fetch returned html, each
\* page's records in their order on the page - whatever the order in which
\* the fetches of a chunk settled.
C3_ResultInPageOrder ==
    (HarvestDone /\ 1 \in ok_pages) => returned = ExpectedRows(1, last_page)

C3_Witness ==
    /\ HarvestDone
    /\ overtaken
    /\ failed_pages # {}
    /\ \E a, b \in 1..Len(returned) :
          a < b /\ returned[a].page > 1 /\ returned[a].page < returned[b].page

\* C4: in a finished run whose first page was fetched, failed fetches have
\* stopped nothing: every page 1..L was requested and its fetch settled on
\* its own outcome, a failed page has no record in the returned list, and
\* every record of every fetched page is in it.
C4_FailureIsLocal ==
    (HarvestDone /\ 1 \in ok_pages) =>
        /\ {requests[n] : n \in 1..Len(requests)} = 1..last_page
        /\ ok_pages \cup failed_pages = 1..last_page
        /\ ok_pages \cap failed_pages = {}
        /\ \A n \in 1..Len(returned) : returned[n].page \notin failed_pages
        /\ \A p \in ok_pages : \A a \in 1..Articles(p) :
              \E n \in 1..Len(returned) :
                  returned[n] = [page |-> p, idx |-> a]

C4_Witness ==
    /\ HarvestDone
    /\ \E p \in failed_pages, q \in ok_pages :
          /\ p >= 2 /\ p < q
          /\ (p - 2) \div chunk_size = (q - 2) \div chunk_size
          /\ \E n \in 1..Len(returned) : returned[n].page = q

RECURSIVE DigitsValue(_)
DigitsValue(ds) ==
    IF ds = <<>> THEN 0
    ELSE 10 * DigitsValue(SubSeq(ds, 1, Len(ds) - 1)) + DigitVal(ds[Len(ds)])

Unsigned(t) == IF t # <<>> /\ t[1] \in {"-", "+"} THEN Tail(t) ELSE t

SpellsInteger(text) ==
    LET t == Strip(text)
    IN  /\ Unsigned(t) # <<>>
        /\ \A n \in 1..Len(Unsigned(t)) : IsDigit(Unsigned(t)[n])

SpelledInteger(text) ==
    LET t == Strip(text)
    IN  IF t[1] = "-" THEN 0 - DigitsValue(Unsigned(t))
        ELSE DigitsValue(Unsigned(t))

PaginationCalled == mode = "pagination" /\ fn = "parse_pagination_last_page"

\* C6, as stated: parse_pagination_last_page returns an integer >= 1 for
\* every first page: 1 without the pagination block, 1 without page links,
\* 1 when the last link's text is no integer, else the integer that text
\* spells.
C6_LastPageAtLeastOne ==
    PaginationCalled =>
        LET links == arg.pagination.links
        IN  /\ ret >= 1
            /\ ~arg.pagination.block => ret = 1
            /\ links = <<>> => ret = 1
            /\ (links # <<>> /\ ~SpellsInteger(links[Len(links)])) => ret = 1
            /\ (links # <<>> /\ SpellsInteger(links[Len(links)])) =>
                  ret = SpelledInteger(links[Len(links)])

\* the failing input of C6: the last page link reads "0"
C6_FailingInput ==
    /\ PaginationCalled
    /\ arg.pagination.links = <<<<"1">>, <<"0">>>>
    /\ ret = 0

\* =========================================== metric normalizers: properties
NormalizerCalled == mode = "normalize" /\ fn # "none"

\* no numeric part to parse: not a str, or a text without any digit
NothingNumeric(v) ==
    v.type # "str" \/ \A n \in 1..Len(v.chars) : ~IsDigit(v.chars[n])

\* C7, as stated: each of the three normalizers returns an integer for every
\* input and never raises, and returns 0 for an input without a parseable
\* numeric part (text without digits, "", "N/A", a value that is no str).
C7_NormalizerTotal ==
    NormalizerCalled =>
        /\ ret.raised = "none"
        /\ NothingNumeric(arg) => ret.val = 0

\* the failing input of C7: "infk" leaves convert_views_to_int of
\* top_habr.py with an OverflowError
C7_FailingInput ==
    /\ NormalizerCalled
    /\ fn = "top_habr.convert_views_to_int"
    /\ arg.chars = <<"i", "n", "f", "k">>
    /\ ret.raised = "OverflowError"

\* the number a well-formed metric spells, times its multiplier, truncated:
\* int.frac * 1000 for k, * 1000000 for m, * 1 without suffix
Multiplier(suffix) ==
    CASE suffix = <<"k">> -> 1000
      [] suffix = <<"m">> -> 1000000
      [] OTHER -> 1

ExactValue(shape) ==
    DigitsValue(shape.int) * Multiplier(shape.suffix)
    + (DigitsValue(shape.frac) * Multiplier(shape.suffix))
      \div Pow10(Len(shape.frac))

\* C8, as stated: on every well-formed metric string convert_views_to_int of
\* top_habr.py and convert_metric_to_int of analysis.py return the numeric
\* part times 1000 for k, 1000000 for m, 1 without suffix, truncated to an
\* integer.
C8_WellFormedValue ==
    (/\ NormalizerCalled
     /\ fn \in {"top_habr.convert_views_to_int",
                "analysis.convert_metric_to_int"}
     /\ arg.shape.wf) =>
        ret = Returns(ExactValue(arg.shape))

\* a failing input of C8: "1.5" gives 0 in convert_views_to_int of
\* top_habr.py, where the claim has 1
C8_FailingInput ==
    /\ NormalizerCalled
    /\ fn = "top_habr.convert_views_to_int"
    /\ arg.chars = <<"1", ".", "5">>
    /\ ret = Returns(0)

\* a second failing input of C8: "2.01k" gives 2009 in convert_metric_to_int
\* of analysis.py, where the claim has 2010
C8_FailingInputRounding ==
    /\ NormalizerCalled
    /\ fn = "analysis.convert_metric_to_int"
    /\ arg.chars = <<"2", ".", "0", "1", "k">>
    /\ ret = Returns(2009)

\* ================================================= year bucketing: properties
\* the year a date starts with: its first 4 characters are 4 digits
StartsWithYear(date) ==
    /\ date.type = "str"
    /\ Len(date.chars) >= 4
    /\ \A n \in 1..4 : IsDigit(date.chars[n])

LeadingYear(date) == DigitsValue(SubSeq(date.chars, 1, 4))

Bucketing == mode \in {"top_habr.main_async", "analysis.main"}

\* the year a key of the dict stands for
KeyYear(key) == IF mode = "analysis.main" THEN DigitsValue(key) ELSE key

RECURSIVE Bucketed(_, _)
Bucketed(d, keys) ==
    IF keys = {} THEN 0
    ELSE LET key == CHOOSE x \in keys : TRUE
         IN  Len(d[key]) + Bucketed(d, keys \ {key})

Ranked == mode = "rank" /\ fn = "top_articles"

\* C10: the Top-N list of a non-empty bucket has min(5, size of the bucket)
\* records, all of the bucket and none twice, in non-increasing views_int;
\* no record left out has more views than one in the list; records with
\* equal views_int stand in their discovery order.
C10_TopFive ==
    Ranked =>
        /\ Len(ret) = IF Len(arg) < 5 THEN Len(arg) ELSE 5
        /\ \A a \in 1..Len(ret) : arg[ret[a].id] = ret[a]
        /\ \A a, b \in 1..Len(ret) :
              a < b =>
                  /\ ret[a].id # ret[b].id
                  /\ ret[a].views_int >= ret[b].views_int
                  /\ ret[a].views_int = ret[b].views_int =>
                        ret[a].id < ret[b].id
        /\ \A n \in 1..Len(arg) :
              (\A a \in 1..Len(ret) : ret[a].id # n) =>
                  \A a \in 1..Len(ret) :
                      arg[n].views_int <= ret[a].views_int

\* a bucket of more than five records with ties inside the list and a
\* record with fewer views standing before one of the list
C10_Witness ==
    /\ Ranked
    /\ Len(arg) > 5
    /\ Len(ret) = 5
    /\ \E a \in 1..4 : ret[a].views_int = ret[a + 1].views_int
    /\ \E a \in 1..5 : \E n \in 1..Len(arg) :
          n < ret[a].id /\ arg[n].views_int < ret[a].views_int

\* ========================================================= median: properties
MedianCalled == mode = "median" /\ fn # "none"

\* the integer view counts of the bucket, as the program derives them
ViewCounts ==
    [n \in 1..Len(arg) |->
        IF fn = "analysis.median"
        THEN analysis_convert_views_to_int(arg[n].views).val
        ELSE convert_views_to_int(arg[n].views).val]

\* v is the r-th smallest of the counts: fewer than r counts lie below it and
\* at least r counts do not exceed it
IsOrderStatistic(counts, r, v) ==
    /\ \E n \in 1..Len(counts) : counts[n] = v
    /\ Cardinality({n \in 1..Len(counts) : counts[n] < v}) < r
    /\ Cardinality({n \in 1..Len(counts) : counts[n] <= v}) >= r

OrderStatistic(counts, r) ==
    CHOOSE v \in {counts[n] : n \in 1..Len(counts)} :
        IsOrderStatistic(counts, r, v)

\* twice the statistical median: the middle value twice for an odd number
\* of counts, the sum of the two central values for an even one
TwiceStandardMedian(counts) ==
    LET n == Len(counts)
    IN  IF n % 2 = 1 THEN 2 * OrderStatistic(counts, (n + 1) \div 2)
        ELSE OrderStatistic(counts, n \div 2)
             + OrderStatistic(counts, (n \div 2) + 1)

\* C11: the median reported for a non-empty bucket is the statistical median
\* of the bucket's integer view counts: the middle one of the sorted counts
\* for an odd-sized bucket, the average of the two central ones for an
\* even-sized bucket.
C11_MedianIsStatisticalMedian ==
    (MedianCalled /\ arg # <<>> /\ ret.raised = "none") =>
        ret.val.twice = TwiceStandardMedian(ViewCounts)

\* an even-sized bucket given out of order whose median lies between two
\* different central counts
C11_Witness ==
    /\ MedianCalled
    /\ Len(arg) = 4
    /\ ret.raised = "none"
    /\ ret.val.twice % 2 = 1
    /\ ViewCounts[1] > ViewCounts[2]
    /\ ViewCounts[3] > ViewCounts[4]

\* ==================================================== page parser: properties
PageParsed == mode = "page" /\ fn = "parse_articles_list"

\* the container has no views element
LacksViews(block) == ~block.parent \/ ~block.value

\* C12: a failure raised while parsing one container never leaves
\* parse_articles_list; the output holds one record for every container that
\* parsed and none for a container that failed, in their top-to-bottom order;
\* a container without the views element parses to a record with views
\* "N/A", which the normalizer turns into views_int 0.
C12_ContainersParsedInIsolation ==
    PageParsed =>
        /\ ret.raised = "none"
        /\ {ret.val[a].idx : a \in 1..Len(ret.val)}
              = {n \in 1..Len(arg) : arg[n].raises = "none"}
        /\ \A a, b \in 1..Len(ret.val) :
              a < b => ret.val[a].idx < ret.val[b].idx
        /\ \A a \in 1..Len(ret.val) :
              LacksViews(arg[ret.val[a].idx]) =>
                  /\ ret.val[a].views = <<"N", "/", "A">>
                  /\ convert_views_to_int(
                         [type |-> "str", chars |-> ret.val[a].views])
                       = Returns(0)

\* a page whose middle container failed, between a container without views
\* and one with views
C12_Witness ==
    /\ PageParsed
    /\ Len(arg) = 3
    /\ arg[2].raises # "none"
    /\ Len(ret.val) = 2
    /\ LacksViews(arg[1])
    /\ ret.val[1].views = <<"N", "/", "A">>
    /\ ret.val[2].idx = 3
    /\ ret.val[2].views # <<"N", "/", "A">>

\* ============================================== harvest: barrier and fan-out
\* every fetch issued for a chunk so far has returned content or failed
ChunksSettled ==
    /\ \A c \in 1..Len(chunks_log) : \A n \in 1..Len(chunks_log[c]) :
          chunks_log[c][n] \in ok_pages \cup failed_pages
    /\ \A n \in 1..Len(pages_html) : pages_html[n] # Pending

\* one step of a run, seen from the barrier
C13_Step ==
    mode = "harvest" =>
        \* the pages of a chunk are requested together, and those of a
        \* chunk after the first only when every earlier fetch has settled
        \* and the delay of every earlier chunk was taken and is over
        /\ (requests' # requests /\ pc # "NotStarted") =>
              /\ pc = "StartChunk"
              /\ ChunksSettled
              /\ coolings = Len(chunks_log)
              /\ requests' = requests \o chunk'
        \* between two chunks the run gets to the next one only out of the
        \* delay
        /\ (pc' = "StartChunk" /\ chunks_log # <<>>) => pc = "Cooling"
        \* the join is over only when every fetch of the chunk has settled
        /\ (pc = "FetchingChunk" /\ pc' # "FetchingChunk") => ChunksSettled
        \* the delay of a chunk starts after its pages were requested and
        \* settled, and nothing is requested while it runs
        /\ (pc' = "Cooling") =>
              /\ ChunksSettled
              /\ \A n \in 1..Len(chunk) :
                    \E r \in 1..Len(requests) : requests[r] = chunk[n]
              /\ coolings' = Len(chunks_log)
        /\ (pc = "Cooling") => requests' = requests

\* C13: chunks run one after the other behind a barrier: no page of chunk
\* k+1 is requested before every fetch of chunk k has returned content or
\* failed and the delay of chunk k has elapsed, and the delay of chunk k
\* starts only once all pages of chunk k were requested and have settled.
C13_ChunkBarrier == [][C13_Step]_vars

\* the second chunk is being fetched, after a first chunk with a failed
\* fetch and its delay
C13_Witness ==
    /\ mode = "harvest" /\ pc = "FetchingChunk"
    /\ Len(chunks_log) = 2
    /\ coolings = 1
    /\ \E p \in failed_pages : p >= 2 /\ p <= chunk_size + 1
    /\ \E n \in 1..Len(pages_html) : pages_html[n] = Pending

\* the number of fetches whose request was sent and which have not settled
InFlight ==
    CASE pc = "FetchingFirstPage" -> 1
      [] pc = "FetchingChunk" ->
            Cardinality({n \in 1..Len(pages_html) : pages_html[n] = Pending})
      [] OTHER -> 0

\* C14: at no moment of a harvest are more than 10 page fetches in flight,
\* and records are added to rows only while no fetch is in flight: the merge
\* loop runs with every fetch of its chunk settled.
C14_BoundedFanOut ==
    /\ [](mode = "harvest" =>
             /\ InFlight <= 10
             /\ pc = "Merging" => GatherDone)
    /\ [][(mode = "harvest" /\ rows' # rows) =>
             /\ InFlight = 0
             /\ pc \in {"ResolvingPagination", "Merging"}
             /\ GatherDone]_vars

\* the merge loop, two pages into a full chunk whose fetches have all
\* settled, with records of the chunk in rows
C14_Witness ==
    /\ mode = "harvest" /\ pc = "Merging"
    /\ Len(pages_html) = 10
    /\ k = 3
    /\ \E n \in 1..Len(rows) : rows[n].page \in {chunk[1], chunk[2]}

\* ======================================================= harvest: trajectory
\* the state of the run's state machine: the merge loop belongs to the
\* chunk being fetched, and the run is between two chunks until the pages
\* of the next one are requested
Phase ==
    CASE pc = "Merging" -> "FetchingChunk"
      [] pc = "StartChunk" ->
            IF chunks_log = <<>> THEN "ResolvingPagination" ELSE "Cooling"
      [] OTHER -> pc

\* the steps every run takes before and between its chunks, where the way
\* taken depends on the first fetch, on last_page and on the number of
\* chunks launched, and on no other fetch
CommonStep ==
    \/ Phase = "NotStarted" /\ Phase' = "FetchingFirstPage"
    \/ /\ Phase = "FetchingFirstPage" /\ Phase' = "ResolvingPagination"
       /\ 1 \in ok_pages'
    \/ /\ Phase = "FetchingFirstPage" /\ Phase' = "Done"
       /\ 1 \in failed_pages' /\ returned' = <<>>
    \/ /\ Phase = "ResolvingPagination" /\ Phase' = "FetchingChunk"
       /\ last_page > 1
    \/ /\ Phase = "ResolvingPagination" /\ Phase' = "Done"
       /\ last_page' <= 1
    \/ Phase = "Cooling" /\ Phase' = "FetchingChunk"

\* chunks are left over after the ones launched
ChunksLeft == Len(chunks_log) < Len(ExpectedChunks(last_page))

\* C15, as stated: a run goes NotStarted, FetchingFirstPage,
\* ResolvingPagination, then FetchingChunk and Cooling in turns, then Done:
\* every FetchingChunk is followed by a Cooling before the next
\* FetchingChunk or Done; a failed first fetch goes straight to Done with
\* an empty result; no other fetch has a say in the states gone through.
C15_CoolingAfterEveryChunk ==
    [][(mode = "harvest" /\ Phase' # Phase) =>
          \/ CommonStep
          \/ Phase = "FetchingChunk" /\ Phase' = "Cooling"
          \/ Phase = "Cooling" /\ Phase' = "Done"]_vars

\* C15, amended: as above, except that only a FetchingChunk with chunks
\* left over is followed by a Cooling, which leads to the next
\* FetchingChunk; the last FetchingChunk goes to Done without a Cooling.
C15_CoolingBetweenChunks ==
    [][(mode = "harvest" /\ Phase' # Phase) =>
          \/ CommonStep
          \/ Phase = "FetchingChunk" /\ Phase' = "Cooling" /\ ChunksLeft
          \/ Phase = "FetchingChunk" /\ Phase' = "Done" /\ ~ChunksLeft]_vars

\* a finished run of three chunks with a failed fetch in a chunk: two
\* delays, none after the last chunk
C15_Witness ==
    /\ HarvestDone
    /\ Len(chunks_log) = 3
    /\ coolings = 2
    /\ \E p \in failed_pages : p >= 2

\* ====================================================== harvest: termination
\* no chunk was launched twice
NoChunkRepeated ==
    \A a, b \in 1..Len(chunks_log) : a # b => chunks_log[a] # chunks_log[b]

\* C16: whatever last_page is resolved and whichever fetches fail, a run in
\* which every fetch settles and every delay elapses reaches Done and stays
\* there, having returned, and launches no chunk twice on its way.
C16_Terminates ==
    /\ <>[](mode = "harvest" /\ pc = "Done")
    /\ [](mode = "harvest" => NoChunkRepeated)
    /\ [][(mode = "harvest" /\ pc' = "Done") => returned' \in {<<>>, rows'}]_vars

\* a finished run of two chunks in which a fetch failed and a fetch
\* settled ahead of an earlier one
C16_Witness ==
    /\ HarvestDone
    /\ Len(chunks_log) = 2
    /\ failed_pages # {}
    /\ overtaken
    /\ returned = rows

====
